---- MODULE Spec2Model ----
(***************************************************************************)
(* Model of the hybrid SLM/LLM router (src/router.py) and of the fallback  *)
(* orchestrator (src/orchestrator.py) with its backend providers           *)
(* (src/models.py).                                                        *)
(*                                                                         *)
(* Text is modelled by TLA+ strings, character by character.  Python       *)
(* floats are modelled by exact rationals held as scaled integers; the     *)
(* scale of every quantity is stated where it is defined.                  *)
(***************************************************************************)
EXTENDS Integers, Sequences, FiniteSets, TLC

(***************************************************************************)
(* Python string primitives.                                               *)
(***************************************************************************)

\* The character of s at position i (1-based), as a one-character string.
CharAt(s, i) == SubSeq(s, i, i)

UpperChars == "ABCDEFGHIJKLMNOPQRSTUVWXYZ"

LowerChars == "abcdefghijklmnopqrstuvwxyz"

DigitChars == "0123456789"

\* The lower-case letter of each upper-case letter
LowerMap ==
    [c \in {CharAt(UpperChars, i) : i \in 1..26} |->
        CharAt(LowerChars, CHOOSE i \in 1..26 : CharAt(UpperChars, i) = c)]

\* str.lower() on one character.
LowerChar(c) == IF c \in DOMAIN LowerMap THEN LowerMap[c] ELSE c

RECURSIVE Lower(_)
\* str.lower()
Lower(s) ==
    IF Len(s) <= 1 THEN LowerChar(s)
    ELSE Lower(SubSeq(s, 1, Len(s) \div 2))
             \o Lower(SubSeq(s, Len(s) \div 2 + 1, Len(s)))

\* sub in s
Contains(s, sub) ==
    \E i \in 1..(Len(s) - Len(sub) + 1) : SubSeq(s, i, i + Len(sub) - 1) = sub

\* Characters str.split() and str.strip() treat as whitespace.
IsSpace(c) == c \in {" ", "\t", "\n", "\r"}

\* Characters the regular expression class \w matches.
WordChars ==
    {CharAt(UpperChars, i) : i \in 1..26}
        \cup {CharAt(LowerChars, i) : i \in 1..26}
        \cup {CharAt(DigitChars, i) : i \in 1..10}
        \cup {"_"}

IsWordChar(c) == c \in WordChars

RECURSIVE LStrip(_)
LStrip(s) == IF s # "" /\ IsSpace(CharAt(s, 1)) THEN LStrip(Tail(s)) ELSE s

RECURSIVE RStrip(_)
RStrip(s) ==
    IF s # "" /\ IsSpace(CharAt(s, Len(s)))
    THEN RStrip(SubSeq(s, 1, Len(s) - 1))
    ELSE s

\* str.strip()
Strip(s) == RStrip(LStrip(s))

\* len(s.split()): the number of maximal runs of non-whitespace characters.
WordCount(s) ==
    Cardinality({i \in 1..Len(s) :
        /\ ~IsSpace(CharAt(s, i))
        /\ (i = 1 \/ IsSpace(CharAt(s, i - 1)))})

\* s.count(c) for a one-character c.
CountChar(s, c) == Cardinality({i \in 1..Len(s) : CharAt(s, i) = c})

\* CountWholeWords matching the keywords in the case they are written in
CountWholeWords_cased(s, keywords) ==
    Cardinality({i \in 1..Len(s) :
        /\ (i = 1 \/ ~IsWordChar(CharAt(s, i - 1)))
        /\ \E k \in keywords :
              /\ i + Len(k) - 1 <= Len(s)
              /\ SubSeq(s, i, i + Len(k) - 1) = k
              /\ (i + Len(k) - 1 = Len(s) \/ ~IsWordChar(CharAt(s, i + Len(k))))})

\* len(re.findall(r'\b(k1|k2|...)\b', s, re.IGNORECASE)): a match starts and
\* ends at a word boundary, so the matches are the keyword occurrences that
\* have no word character right before or right after them.
CountWholeWords(s, keywords) ==
    LET low == Lower(s)
    IN  Cardinality({i \in 1..Len(s) :
            /\ (i = 1 \/ ~IsWordChar(CharAt(s, i - 1)))
            /\ \E k \in keywords :
                  /\ i + Len(k) - 1 <= Len(s)
                  /\ SubSeq(low, i, i + Len(k) - 1) = k
                  /\ (i + Len(k) - 1 = Len(s) \/ ~IsWordChar(CharAt(s, i + Len(k))))})

(***************************************************************************)
(* Numbers.  A Python float is held as an exact rational n/d with a fixed  *)
(* denominator d per quantity.                                             *)
(***************************************************************************)

Min(a, b) == IF a <= b THEN a ELSE b

Max(a, b) == IF a >= b THEN a ELSE b

RECURSIVE Pow10(_)
Pow10(k) == IF k = 0 THEN 1 ELSE 10 * Pow10(k - 1)

RECURSIVE ZeroPad(_, _)
\* s padded with zeros on the left to at least k characters
ZeroPad(s, k) == IF Len(s) >= k THEN s ELSE ZeroPad("0" \o s, k)

\* f"{x:.<places>f}" for x = n/d with d > 0: x rounded to the nearest multiple
\* of 10^-places, a tie going to the even digit, in fixed-point notation.
FormatFixed(n, d, places) ==
    LET a      == IF n < 0 THEN 0 - n ELSE n
        g      == Pow10(places)
        \* a*g/d, with the common factor g cancelled when d has it
        num    == IF d % g = 0 THEN a ELSE a * g
        den    == IF d % g = 0 THEN d \div g ELSE d
        q      == num \div den
        r      == num % den
        up     == 2 * r > den \/ (2 * r = den /\ q % 2 = 1)
        m      == IF up THEN q + 1 ELSE q
        whole  == ToString(m \div Pow10(places))
        frac   == ZeroPad(ToString(m % Pow10(places)), places)
    IN  (IF n < 0 THEN "-" ELSE "")
            \o whole
            \o (IF places = 0 THEN "" ELSE "." \o frac)

(***************************************************************************)
(* Units of the router's quantities:                                       *)
(*   complexity and its thresholds   1/500                                 *)
(*   token estimates and thresholds  1/10 token                            *)
(*   cost_per_token                  1e-7 per token                        *)
(*   estimated_cost                  1e-8                                  *)
(*   estimated_latency               1e-4 s                                *)
(*   weights                         1/100                                 *)
(*   quality and score terms         1e-6                                  *)
(*   scores                          1e-8                                  *)
(*   confidence                      1/100                                 *)
(***************************************************************************)

ComplexityUnit == 500

TokenUnit == 10

ScoreUnit == 100000000

\* dict.get(key, default)
Get(d, key, default) == IF key \in DOMAIN d THEN d[key] ELSE default

\* ModelRouter.__init__: the attributes read from the configuration file.
ModelRouter_init(file) ==
    [config                     |-> file,
     complexity_threshold       |-> file.routing.complexity_threshold,
     max_slm_tokens             |-> file.routing.max_slm_tokens,
     large_input_threshold      |->
         Get(file.routing, "large_input_threshold", 2000 * TokenUnit),
     gemini_preferred_threshold |->
         Get(file.routing, "gemini_preferred_threshold", 1000 * TokenUnit),
     fallback_enabled           |-> file.routing.fallback_enabled]

complex_patterns ==
    {"analyze", "explain", "compare", "evaluate", "synthesize", "create",
     "design", "develop"}

technical_terms ==
    {"algorithm", "architecture", "optimization", "implementation",
     "framework", "protocol"}

\* analyze_complexity with the term of the question marks left uncapped
analyze_complexity_uncapped(text) ==
    LET complexity_score ==
              Min(5 * WordCount(text), 150)
            + Min(Len(text), 100)
            + 50 * CountChar(text, "?")
            + Min(75 * CountWholeWords(text, complex_patterns), 100)
            + Min(50 * CountWholeWords(text, technical_terms), 50)
    IN  Min(complexity_score, ComplexityUnit)

\* ModelRouter.analyze_complexity, in units of 1/500
analyze_complexity(text) ==
    LET word_count     == WordCount(text)
        char_count     == Len(text)
        question_marks == CountChar(text, "?")
        complex        == CountWholeWords(text, complex_patterns)
        technical      == CountWholeWords(text, technical_terms)
        complexity_score ==
              Min(5 * word_count, 150)
            + Min(char_count, 100)
            + Min(50 * question_marks, 100)
            + Min(75 * complex, 100)
            + Min(50 * technical, 50)
    IN  Min(complexity_score, ComplexityUnit)

\* ModelRouter.estimate_tokens, in tenths of a token
estimate_tokens(text) == WordCount(text) * 13

\* ModelRouter.estimate_cost, in units of 1e-8
estimate_cost(self, text, model_type) ==
    LET tokens == estimate_tokens(text)
        cost_per_token ==
            IF model_type = "gemini" /\ "gemini" \in DOMAIN self.config.models
            THEN self.config.models["gemini"].cost_per_token
            ELSE self.config.models[model_type].cost_per_token
    IN  tokens * cost_per_token

\* ModelRouter.estimate_latency, in units of 1e-4 s
estimate_latency(text, model_type) ==
    LET tokens == estimate_tokens(text)
    IN  IF model_type = "gemini" THEN 10000 + 5 * tokens
        ELSE IF model_type = "llm" THEN 20000 + 10 * tokens
        ELSE 5000 + 2 * tokens

RoutingDecision(model_type, confidence, reason, cost, latency) ==
    [model_type        |-> model_type,
     confidence        |-> confidence,
     reason            |-> reason,
     estimated_cost    |-> cost,
     estimated_latency |-> latency]

\* The weighted score of a tier (rule 5), in units of 1e-8:
\* cost_weight*(1 - cost*100) + latency_weight*(1 - latency/10)
\*     + quality_weight*quality
WeightedScore(self, cost, latency, quality) ==
      self.config.routing.cost_weight * (1000000 - cost)
    + self.config.routing.latency_weight * (1000000 - 10 * latency)
    + self.config.routing.quality_weight * quality

\* route_weighted with the comparison of the slm and llm scores reversed
route_weighted_reversed(self, text, complexity, estimated_tokens, gemini_available) ==
    LET llm_cost    == estimate_cost(self, text, "llm")
        slm_cost    == estimate_cost(self, text, "slm")
        llm_latency == estimate_latency(text, "llm")
        slm_latency == estimate_latency(text, "slm")
        llm_score == WeightedScore(self, llm_cost, llm_latency,
                                   Min(2400 * complexity, 1000000))
        slm_score == WeightedScore(self, slm_cost, slm_latency,
                                   Max(500000, 1000000 - 1000 * complexity))
    IN  IF slm_score < llm_score /\ complexity < 350
        THEN RoutingDecision("slm", 70,
                 "Balanced decision: SLM preferred (score: "
                     \o FormatFixed(slm_score, ScoreUnit, 2) \o ")",
                 slm_cost, slm_latency)
        ELSE RoutingDecision("llm", 85,
                 "Balanced decision: LLM preferred (score: "
                     \o FormatFixed(llm_score, ScoreUnit, 2) \o ")",
                 llm_cost, llm_latency)

\* ModelRouter.route, rule 5: the weighted score
route_weighted(self, text, complexity, estimated_tokens, gemini_available) ==
    LET llm_cost    == estimate_cost(self, text, "llm")
        slm_cost    == estimate_cost(self, text, "slm")
        llm_latency == estimate_latency(text, "llm")
        slm_latency == estimate_latency(text, "slm")
        gemini_on   == gemini_available
                         /\ estimated_tokens >= self.gemini_preferred_threshold
        gemini_cost    == IF gemini_on THEN estimate_cost(self, text, "gemini") ELSE 0
        gemini_latency == IF gemini_on THEN estimate_latency(text, "gemini") ELSE 0
        gemini_quality_score == Min(2600 * complexity, 1000000)
        gemini_score ==
            IF gemini_on
            THEN WeightedScore(self, gemini_cost, gemini_latency, gemini_quality_score)
            ELSE 0
        llm_quality_score == Min(2400 * complexity, 1000000)
        slm_quality_score == Max(500000, 1000000 - 1000 * complexity)
        llm_score == WeightedScore(self, llm_cost, llm_latency, llm_quality_score)
        slm_score == WeightedScore(self, slm_cost, slm_latency, slm_quality_score)
    IN  IF gemini_available /\ gemini_score > 0
            /\ gemini_score >= Max(llm_score, slm_score)
        THEN RoutingDecision("gemini", 85,
                 "Gemini preferred for reliability and speed (score: "
                     \o FormatFixed(gemini_score, ScoreUnit, 2) \o ", "
                     \o FormatFixed(estimated_tokens, TokenUnit, 0) \o " tokens)",
                 gemini_cost, gemini_latency)
        ELSE IF slm_score > llm_score /\ complexity < 350
        THEN RoutingDecision("slm", 70,
                 "Balanced decision: SLM preferred (score: "
                     \o FormatFixed(slm_score, ScoreUnit, 2) \o ")",
                 slm_cost, slm_latency)
        ELSE RoutingDecision("llm", 85,
                 "Balanced decision: LLM preferred (score: "
                     \o FormatFixed(llm_score, ScoreUnit, 2) \o ")",
                 llm_cost, llm_latency)

\* The rules after the large-input rule, with the cost rule or the slm
\* branch of the speed rule held to the limits of the complexity rule
route_rules_capped(self, text, priority, cost_capped, speed_capped) ==
    LET complexity       == analyze_complexity(text)
        word_count       == WordCount(text)
        estimated_tokens == estimate_tokens(text)
        gemini_available == "gemini" \in DOMAIN self.config.models
        tokens_str       == FormatFixed(estimated_tokens, TokenUnit, 0)
        complexity_str   == FormatFixed(complexity, ComplexityUnit, 2)
    IN  IF priority = "cost" /\ complexity < 400
               /\ word_count < self.max_slm_tokens
               /\ (cost_capped => complexity <= self.complexity_threshold)
        THEN RoutingDecision("slm", 80,
                 "Low complexity task, cost-optimized",
                 estimate_cost(self, text, "slm"),
                 estimate_latency(text, "slm"))
        ELSE IF priority = "speed"
                 /\ estimated_tokens >= self.gemini_preferred_threshold
                 /\ gemini_available
        THEN RoutingDecision("gemini", 90,
                 "Large input (" \o tokens_str
                     \o " tokens) - Gemini preferred for speed",
                 estimate_cost(self, text, "gemini"),
                 estimate_latency(text, "gemini"))
        ELSE IF priority = "speed" /\ complexity < 350
                 /\ (speed_capped => word_count < self.max_slm_tokens)
        THEN RoutingDecision("slm", 75,
                 "Simple task, speed-optimized",
                 estimate_cost(self, text, "slm"),
                 estimate_latency(text, "slm"))
        ELSE IF complexity > self.complexity_threshold
                 \/ word_count > self.max_slm_tokens
        THEN IF estimated_tokens >= self.gemini_preferred_threshold
                 /\ gemini_available
             THEN RoutingDecision("gemini", 90,
                      "High complexity (" \o complexity_str
                          \o ") and large input (" \o tokens_str
                          \o " tokens) - Gemini preferred",
                      estimate_cost(self, text, "gemini"),
                      estimate_latency(text, "gemini"))
             ELSE RoutingDecision("llm", 90,
                      "High complexity (" \o complexity_str
                          \o ") or long input",
                      estimate_cost(self, text, "llm"),
                      estimate_latency(text, "llm"))
        ELSE route_weighted(self, text, complexity, estimated_tokens,
                            gemini_available)

\* route_after_large_input with a cost rule that yields to a complexity
\* above complexity_threshold
route_cost_capped(self, text, priority) ==
    route_rules_capped(self, text, priority, TRUE, FALSE)

\* route_after_large_input with a speed rule that yields to a word count
\* of max_slm_tokens or more
route_speed_capped(self, text, priority) ==
    route_rules_capped(self, text, priority, FALSE, TRUE)

\* route_after_large_input with a complexity rule that never prefers gemini
route_complexity_to_llm(self, text, priority) ==
    LET complexity       == analyze_complexity(text)
        word_count       == WordCount(text)
        estimated_tokens == estimate_tokens(text)
        gemini_available == "gemini" \in DOMAIN self.config.models
        tokens_str       == FormatFixed(estimated_tokens, TokenUnit, 0)
        complexity_str   == FormatFixed(complexity, ComplexityUnit, 2)
    IN  IF priority = "cost" /\ complexity < 400
               /\ word_count < self.max_slm_tokens
        THEN RoutingDecision("slm", 80,
                 "Low complexity task, cost-optimized",
                 estimate_cost(self, text, "slm"),
                 estimate_latency(text, "slm"))
        ELSE IF priority = "speed"
                 /\ estimated_tokens >= self.gemini_preferred_threshold
                 /\ gemini_available
        THEN RoutingDecision("gemini", 90,
                 "Large input (" \o tokens_str
                     \o " tokens) - Gemini preferred for speed",
                 estimate_cost(self, text, "gemini"),
                 estimate_latency(text, "gemini"))
        ELSE IF priority = "speed" /\ complexity < 350
        THEN RoutingDecision("slm", 75,
                 "Simple task, speed-optimized",
                 estimate_cost(self, text, "slm"),
                 estimate_latency(text, "slm"))
        ELSE IF complexity > self.complexity_threshold
                 \/ word_count > self.max_slm_tokens
        THEN IF FALSE
             THEN RoutingDecision("gemini", 90,
                      "High complexity (" \o complexity_str
                          \o ") and large input (" \o tokens_str
                          \o " tokens) - Gemini preferred",
                      estimate_cost(self, text, "gemini"),
                      estimate_latency(text, "gemini"))
             ELSE RoutingDecision("llm", 90,
                      "High complexity (" \o complexity_str
                          \o ") or long input",
                      estimate_cost(self, text, "llm"),
                      estimate_latency(text, "llm"))
        ELSE route_weighted(self, text, complexity, estimated_tokens,
                            gemini_available)

\* ModelRouter.route, rules 2 to 5: the rules after the large-input rule
route_after_large_input(self, text, priority) ==
    LET complexity       == analyze_complexity(text)
        word_count       == WordCount(text)
        estimated_tokens == estimate_tokens(text)
        gemini_available == "gemini" \in DOMAIN self.config.models
        tokens_str       == FormatFixed(estimated_tokens, TokenUnit, 0)
        complexity_str   == FormatFixed(complexity, ComplexityUnit, 2)
    IN  IF priority = "cost" /\ complexity < 400
               /\ word_count < self.max_slm_tokens
        THEN RoutingDecision("slm", 80,
                 "Low complexity task, cost-optimized",
                 estimate_cost(self, text, "slm"),
                 estimate_latency(text, "slm"))
        ELSE IF priority = "speed"
                 /\ estimated_tokens >= self.gemini_preferred_threshold
                 /\ gemini_available
        THEN RoutingDecision("gemini", 90,
                 "Large input (" \o tokens_str
                     \o " tokens) - Gemini preferred for speed",
                 estimate_cost(self, text, "gemini"),
                 estimate_latency(text, "gemini"))
        ELSE IF priority = "speed" /\ complexity < 350
        THEN RoutingDecision("slm", 75,
                 "Simple task, speed-optimized",
                 estimate_cost(self, text, "slm"),
                 estimate_latency(text, "slm"))
        ELSE IF complexity > self.complexity_threshold
                 \/ word_count > self.max_slm_tokens
        THEN IF estimated_tokens >= self.gemini_preferred_threshold
                 /\ gemini_available
             THEN RoutingDecision("gemini", 90,
                      "High complexity (" \o complexity_str
                          \o ") and large input (" \o tokens_str
                          \o " tokens) - Gemini preferred",
                      estimate_cost(self, text, "gemini"),
                      estimate_latency(text, "gemini"))
             ELSE RoutingDecision("llm", 90,
                      "High complexity (" \o complexity_str
                          \o ") or long input",
                      estimate_cost(self, text, "llm"),
                      estimate_latency(text, "llm"))
        ELSE route_weighted(self, text, complexity, estimated_tokens,
                            gemini_available)

\* ModelRouter.route, rule 1: a large input goes to gemini when configured
LargeInputDecision(self, text) ==
    RoutingDecision("gemini", 95,
        "Very large input (" \o FormatFixed(estimate_tokens(text), TokenUnit, 0)
            \o " tokens) - routing to Gemini for speed and reliability",
        estimate_cost(self, text, "gemini"),
        estimate_latency(text, "gemini"))

\* route with the cost rule tried before the large-input rule
route_cost_first(self, text, priority) ==
    IF priority # "cost"
           /\ estimate_tokens(text) >= self.large_input_threshold
           /\ "gemini" \in DOMAIN self.config.models
    THEN LargeInputDecision(self, text)
    ELSE route_after_large_input(self, text, priority)

\* route with a large-input rule that does not ask whether a gemini tier
\* is configured
route_large_unchecked(self, text, priority) ==
    IF estimate_tokens(text) >= self.large_input_threshold
    THEN IF "gemini" \in DOMAIN self.config.models
         THEN LargeInputDecision(self, text)
         ELSE RoutingDecision("gemini", 95,
                  "Very large input - routing to Gemini for speed and reliability",
                  estimate_cost(self, text, "llm"),
                  estimate_latency(text, "gemini"))
    ELSE route_after_large_input(self, text, priority)

\* ModelRouter.route
route(self, text, priority) ==
    IF estimate_tokens(text) >= self.large_input_threshold
           /\ "gemini" \in DOMAIN self.config.models
    THEN LargeInputDecision(self, text)
    ELSE route_after_large_input(self, text, priority)

(***************************************************************************)
(* Inputs.                                                                 *)
(***************************************************************************)

\* The longest generated prompt, in words
MaxWords == 8

RECURSIVE Repeat(_, _)
Repeat(w, n) ==
    IF n = 0 THEN ""
    ELSE IF n = 1 THEN w
    ELSE Repeat(w, n \div 2) \o Repeat(w, n - n \div 2)

ExampleDesign ==
    "Design a distributed system architecture for 10 million concurrent users"

\* Texts given to route
Texts ==
    {"", "Hi", "  Hi there \n", "Explain quantum computing?", ExampleDesign}
        \cup {Strip(Repeat("data ", n)) : n \in 1..MaxWords}

\* Prompts given to process and distill_and_process
Prompts ==
    {"Hi", "  Hi there \n", "Explain quantum computing?", ExampleDesign,
     Strip(Repeat("data ", MaxWords))}

Priorities == {"cost", "speed", "balanced"}

Tiers == {"slm", "llm", "gemini"}

\* What a backend of a tier may deliver for one call: a text, or a failure
\* with the message of the exception of the HTTP client or the SDK.
Replies(tier) ==
    {[ok |-> TRUE, text |-> t] :
        t \in {"", " ok \n", "sorry, error, unable", "The " \o tier \o " answer."}}
    \cup
    {[ok |-> FALSE, text |-> t] :
        t \in {tier \o " host: Connection refused",
               tier \o " host: 500 Server Error"}}

\* The tiers of a configuration file: slm and llm always, gemini optional
ModelsOf(with_gemini) ==
    LET base == [t \in {"slm", "llm"} |->
                    [provider |-> "ollama",
                     cost_per_token |-> IF t = "slm" THEN 1 ELSE 300]]
    IN  IF with_gemini
        THEN [t \in Tiers |->
                 IF t = "gemini"
                 THEN [provider |-> "gemini", cost_per_token |-> 10]
                 ELSE base[t]]
        ELSE base

\* The routing sections: one that names every threshold, with thresholds
\* short prompts reach, and one that leaves large_input_threshold and
\* gemini_preferred_threshold to their defaults.
RoutingOf(small, fallback_enabled) ==
    IF small
    THEN [complexity_threshold       |-> 150,
          max_slm_tokens             |-> 9,
          large_input_threshold      |-> 10 * TokenUnit,
          gemini_preferred_threshold |-> 5 * TokenUnit,
          fallback_enabled           |-> fallback_enabled,
          cost_weight                |-> 30,
          latency_weight             |-> 30,
          quality_weight             |-> 40]
    ELSE [complexity_threshold       |-> 250,
          max_slm_tokens             |-> 512,
          fallback_enabled           |-> fallback_enabled,
          cost_weight                |-> 30,
          latency_weight             |-> 30,
          quality_weight             |-> 40]

\* The configuration files (config.yaml) the service is started with
ConfigFiles ==
    {[models |-> ModelsOf(g), routing |-> RoutingOf(s, f)] :
        g \in BOOLEAN, s \in BOOLEAN, f \in BOOLEAN}

\* The routers of the configuration files
Routers == {ModelRouter_init(file) : file \in ConfigFiles}

\* route tabulated over the routers and the inputs
RouteTable ==
    [self \in Routers |-> [text \in Texts |-> [priority \in Priorities |->
        route(self, text, priority)]]]

\* self.router.route(text, priority): the value of route, read from the table
router_route(self, text, priority) == RouteTable[self][text][priority]

(***************************************************************************)
(* Backend providers (src/models.py).  A provider call is a blocking        *)
(* round trip: io.script holds the replies the backends have delivered to   *)
(* the running request so far, in the order of the calls, and io.calls the  *)
(* calls made.  A call for which no reply has been delivered yet leaves     *)
(* the request blocked on that call.                                        *)
(***************************************************************************)

Result(st, val, io) == [st |-> st, val |-> val, io |-> io]

\* LLMProvider.__init__ / SLMProvider.__init__: the provider of a tier
ProviderOf(self, tier) == Get(self.config.models[tier], "provider", "ollama")

\* LLMProvider.generate / SLMProvider.generate
generate(self, tier, prompt, io) ==
    LET n == Len(io.calls) + 1
    IN  IF n > Len(io.script)
        THEN Result("blocked", [tier |-> tier, prompt |-> prompt], io)
        ELSE LET reply    == io.script[n]
                 provider == ProviderOf(self, tier)
                 val ==
                     IF reply.ok THEN reply.text
                     ELSE IF provider = "ollama"
                     THEN "Ollama API error: " \o reply.text
                     ELSE "Gemini API error: " \o reply.text
                 call == [tier |-> tier, prompt |-> prompt,
                          ok |-> reply.ok, val |-> val]
             IN  Result(IF reply.ok THEN "ok" ELSE "exc", val,
                        [io EXCEPT !.calls = Append(@, call)])

(***************************************************************************)
(* HybridOrchestrator (src/orchestrator.py).                               *)
(***************************************************************************)

\* HybridOrchestrator.__init__
HybridOrchestrator_init(file) ==
    [config           |-> file,
     router           |-> ModelRouter_init(file),
     fallback_enabled |-> file.routing.fallback_enabled,
     gemini_fallback  |-> "gemini" \in DOMAIN file.models]

\* The test of _try_generate_with_fallback for a connectivity failure
IsConnectionError(e) ==
    LET error_str == Lower(e)
    IN  \/ Contains(error_str, "ollama") /\ Contains(error_str, "connection")
        \/ Contains(error_str, "connection error")

\* HybridOrchestrator._try_generate_with_fallback, the except clause:
\* r is the result of provider.generate(prompt)
try_generate_except(self, prompt, model_name, r) ==
    IF r.st # "exc" THEN r
    ELSE IF IsConnectionError(r.val)
    THEN IF self.gemini_fallback
         THEN generate(self, "gemini", prompt, r.io)
         ELSE Result("exc",
                  model_name \o " failed (Ollama not available) and Gemini fallback not configured",
                  r.io)
    ELSE r

\* HybridOrchestrator._try_generate_with_fallback
try_generate_with_fallback(self, tier, prompt, model_name, io) ==
    try_generate_except(self, prompt, model_name, generate(self, tier, prompt, io))

error_indicators == {"error", "cannot", "unable", "sorry", "i don't know"}

\* check_response_quality counting the indicators in the response as given
check_response_quality_cased(response, prompt) ==
    IF response = "" \/ Len(response) < 10 THEN FALSE
    ELSE IF 10 * Len(response) < Len(prompt) THEN FALSE
    ELSE Cardinality({i \in error_indicators : Contains(response, i)}) < 2

\* HybridOrchestrator._check_response_quality
check_response_quality(response, prompt) ==
    IF response = "" \/ Len(response) < 10 THEN FALSE
    ELSE IF 10 * Len(response) < Len(prompt) THEN FALSE
    ELSE LET response_lower == Lower(response)
             error_count ==
                 Cardinality({i \in error_indicators : Contains(response_lower, i)})
         IN  error_count < 2

\* ReturnOutcome marking a fallback whenever the response came from another
\* tier than the one named, without giving a reason
ReturnOutcome_unexplained(r, model_used, decision) ==
    IF r.st = "ok"
    THEN Result("returned",
             [response      |-> r.val,
              model_used    |-> model_used,
              decision      |-> decision,
              fallback_used |-> r.io.calls[Len(r.io.calls)].tier # model_used],
             r.io)
    ELSE r

\* process: r is the result of a provider call; on success process returns
\* the dictionary without a fallback, otherwise the exception propagates.
ReturnOutcome(r, model_used, decision) ==
    IF r.st = "ok"
    THEN Result("returned",
             [response      |-> r.val,
              model_used    |-> model_used,
              decision      |-> decision,
              fallback_used |-> FALSE],
             r.io)
    ELSE r

\* ReturnFallback with the decision rewritten to name the tier that answered
ReturnFallback_redeciding(r, model_used, decision, fallback_reason) ==
    IF r.st = "ok"
    THEN Result("returned",
             [response        |-> r.val,
              model_used      |-> model_used,
              decision        |-> [decision EXCEPT !.model_type = model_used],
              fallback_used   |-> TRUE,
              fallback_reason |-> fallback_reason],
             r.io)
    ELSE r

\* process: r is the result of a provider call; on success process returns
\* the dictionary of a fallback, otherwise the exception propagates.
ReturnFallback(r, model_used, decision, fallback_reason) ==
    IF r.st = "ok"
    THEN Result("returned",
             [response        |-> r.val,
              model_used      |-> model_used,
              decision        |-> decision,
              fallback_used   |-> TRUE,
              fallback_reason |-> fallback_reason],
             r.io)
    ELSE r

\* process_quality_gate with the gate not reading self.fallback_enabled
process_quality_gate_unconfigured(self, prompt, decision, use_llm_fallback, r) ==
    IF r.st # "ok" THEN r
    ELSE IF use_llm_fallback /\ ~check_response_quality(r.val, prompt)
    THEN IF self.gemini_fallback
         THEN ReturnFallback(generate(self, "gemini", prompt, r.io),
                  "gemini", decision,
                  "SLM response quality insufficient, using Gemini")
         ELSE ReturnFallback(
                  try_generate_with_fallback(self, "llm", prompt, "LLM", r.io),
                  "llm", decision, "SLM response quality insufficient")
    ELSE ReturnOutcome(r, "slm", decision)

\* HybridOrchestrator.process, the local tier: r is the result of
\* _try_generate_with_fallback(self.slm, prompt, "SLM"), then the quality gate
process_quality_gate(self, prompt, decision, use_llm_fallback, r) ==
    IF r.st # "ok" THEN r
    ELSE IF use_llm_fallback /\ self.fallback_enabled
               /\ ~check_response_quality(r.val, prompt)
    THEN IF self.gemini_fallback
         THEN ReturnFallback(generate(self, "gemini", prompt, r.io),
                  "gemini", decision,
                  "SLM response quality insufficient, using Gemini")
         ELSE ReturnFallback(
                  try_generate_with_fallback(self, "llm", prompt, "LLM", r.io),
                  "llm", decision, "SLM response quality insufficient")
    ELSE ReturnOutcome(r, "slm", decision)

\* HybridOrchestrator.process, the body of the try statement
process_try(self, prompt, decision, use_llm_fallback, io) ==
    IF decision.model_type = "gemini"
    THEN IF ~self.gemini_fallback
         THEN Result("exc", "Gemini routing requested but Gemini not configured", io)
         ELSE ReturnOutcome(generate(self, "gemini", prompt, io), "gemini", decision)
    ELSE IF decision.model_type = "llm"
    THEN ReturnOutcome(try_generate_with_fallback(self, "llm", prompt, "LLM", io),
                       "llm", decision)
    ELSE process_quality_gate(self, prompt, decision, use_llm_fallback,
             try_generate_with_fallback(self, "slm", prompt, "SLM", io))

\* HybridOrchestrator.process, the inner except clauses: inner is the result
\* of the fallback dispatch, and a failure of it raises `message` followed
\* by its error text.
RaiseWith(message, inner) ==
    IF inner.st = "exc"
    THEN Result("raised", message \o inner.val, inner.io)
    ELSE inner

\* process_except with a failed gemini decision answered by llm
process_except_retrying(self, prompt, decision, use_llm_fallback, e, io) ==
    IF decision.model_type = "slm" /\ use_llm_fallback /\ self.fallback_enabled
    THEN RaiseWith("All models failed. SLM: " \o e \o ", LLM/Gemini: ",
             IF self.gemini_fallback
             THEN ReturnFallback(generate(self, "gemini", prompt, io),
                      "gemini", decision, "SLM error: " \o e \o ", using Gemini")
             ELSE ReturnFallback(
                      try_generate_with_fallback(self, "llm", prompt, "LLM", io),
                      "llm", decision, "SLM error: " \o e))
    ELSE IF decision.model_type = "llm" /\ self.gemini_fallback
    THEN RaiseWith("Both LLM and Gemini failed. LLM: " \o e \o ", Gemini: ",
             ReturnFallback(generate(self, "gemini", prompt, io),
                 "gemini", decision, "LLM error: " \o e \o ", using Gemini"))
    ELSE IF decision.model_type = "gemini"
    THEN RaiseWith("Both Gemini and LLM failed. Gemini: " \o e \o ", LLM: ",
             ReturnFallback(generate(self, "llm", prompt, io),
                 "llm", decision, "Gemini error: " \o e \o ", using LLM"))
    ELSE Result("raised", e, io)

\* HybridOrchestrator.process, the except clause: e is str(e)
process_except(self, prompt, decision, use_llm_fallback, e, io) ==
    IF decision.model_type = "slm" /\ use_llm_fallback /\ self.fallback_enabled
    THEN RaiseWith("All models failed. SLM: " \o e \o ", LLM/Gemini: ",
             IF self.gemini_fallback
             THEN ReturnFallback(generate(self, "gemini", prompt, io),
                      "gemini", decision, "SLM error: " \o e \o ", using Gemini")
             ELSE ReturnFallback(
                      try_generate_with_fallback(self, "llm", prompt, "LLM", io),
                      "llm", decision, "SLM error: " \o e))
    ELSE IF decision.model_type = "llm" /\ self.gemini_fallback
    THEN RaiseWith("Both LLM and Gemini failed. LLM: " \o e \o ", Gemini: ",
             ReturnFallback(generate(self, "gemini", prompt, io),
                 "gemini", decision, "LLM error: " \o e \o ", using Gemini"))
    ELSE Result("raised", e, io)

\* HybridOrchestrator.process, the try statement: body is the result of its
\* body, and an exception of it runs the except clause.
process_catch(self, prompt, decision, use_llm_fallback, body) ==
    IF body.st = "exc"
    THEN process_except(self, prompt, decision, use_llm_fallback, body.val, body.io)
    ELSE body

\* HybridOrchestrator.process, after the routing decision
process_decided(self, prompt, decision, use_llm_fallback, io) ==
    process_catch(self, prompt, decision, use_llm_fallback,
        process_try(self, prompt, decision, use_llm_fallback, io))

\* HybridOrchestrator.process
process(self, prompt, priority, use_llm_fallback, io) ==
    process_decided(self, prompt, router_route(self.router, prompt, priority),
        use_llm_fallback, io)

\* The meta-prompt distill_and_process sends to the local tier
distillation_prompt(prompt) ==
    "You are a prompt optimizer. Your task is to refine and narrow down the following user prompt to make it more focused, clear, and effective for a large language model.\n\nOriginal prompt: "
        \o prompt
        \o "\n\nProvide a refined, concise version of this prompt that:\n1. Maintains the core intent\n2. Removes unnecessary details\n3. Clarifies any ambiguities\n4. Focuses on the key question or request\n\nReturn only the refined prompt, nothing else."

\* distill_and_process: r is the result of the stage-2 call; on success the
\* call returns the dictionary of a distillation.
ReturnDistilled(r, model_used, refined_prompt, prompt) ==
    IF r.st = "ok"
    THEN Result("returned",
             [response          |-> r.val,
              model_used        |-> model_used,
              refined_prompt    |-> refined_prompt,
              original_prompt   |-> prompt,
              distillation_used |-> TRUE],
             r.io)
    ELSE r

\* distill_and_process: r is the result of the call of the except clause; on
\* success the call returns the dictionary that records the error e.
ReturnUndistilled(r, prompt, e) ==
    IF r.st = "ok"
    THEN Result("returned",
             [response           |-> r.val,
              model_used         |-> "gemini",
              refined_prompt     |-> prompt,
              original_prompt    |-> prompt,
              distillation_used  |-> FALSE,
              distillation_error |-> e],
             r.io)
    ELSE r

\* HybridOrchestrator.distill_and_process, stage 2: the refined prompt goes
\* to gemini when it is configured and to the llm tier otherwise
distill_stage2(self, prompt, refined_prompt, io) ==
    IF self.gemini_fallback
    THEN ReturnDistilled(generate(self, "gemini", refined_prompt, io),
             "gemini", refined_prompt, prompt)
    ELSE ReturnDistilled(
             try_generate_with_fallback(self, "llm", refined_prompt, "LLM", io),
             "llm", refined_prompt, prompt)

\* HybridOrchestrator.distill_and_process, the refinement kept: the original
\* prompt when the refinement is empty or short, and the result stripped
RefinedPrompt(refined, prompt) ==
    Strip(IF refined = "" \/ Len(Strip(refined)) < 10 THEN prompt ELSE refined)

\* HybridOrchestrator.distill_and_process, the body of the try statement
\* after stage 1: s1 is the result of the refinement call
distill_refined(self, prompt, s1) ==
    IF s1.st # "ok" THEN s1
    ELSE distill_stage2(self, prompt, RefinedPrompt(s1.val, prompt), s1.io)

\* HybridOrchestrator.distill_and_process, the body of the try statement
distill_try(self, prompt, io) ==
    distill_refined(self, prompt,
        try_generate_with_fallback(self, "slm", distillation_prompt(prompt), "SLM", io))

\* HybridOrchestrator.distill_and_process, the except clause: e is str(e)
distill_except(self, prompt, e, io) ==
    IF self.gemini_fallback
    THEN RaiseWith("Distillation and fallback failed. Distillation: " \o e
                       \o ", Gemini: ",
             ReturnUndistilled(generate(self, "gemini", prompt, io), prompt, e))
    ELSE Result("raised", "Distillation failed: " \o e, io)

\* HybridOrchestrator.distill_and_process, the try statement: body is the
\* result of its body, and an exception of it runs the except clause.
distill_catch(self, prompt, body) ==
    IF body.st = "exc"
    THEN distill_except(self, prompt, body.val, body.io)
    ELSE body

\* HybridOrchestrator.distill_and_process
distill_and_process(self, prompt, io) ==
    distill_catch(self, prompt, distill_try(self, prompt, io))

(***************************************************************************)
(* The service: one orchestrator built at start (src/api.py), handling one *)
(* request at a time.                                                      *)
(***************************************************************************)

VARIABLES
    config_yaml,    \* the configuration file on disk
    orchestrator,   \* the HybridOrchestrator of the service
    request,        \* the call being handled, or handled last
    script,         \* the backend replies delivered to it so far
    result,         \* where the call stands: blocked on a backend call,
                    \* returned a value, or raised an error
    training_jobs   \* the training jobs of src/api.py, by job id

vars == <<config_yaml, orchestrator, request, script, result, training_jobs>>

NoIo == [script |-> <<>>, calls |-> <<>>]

Idle == Result("idle", "", NoIo)

\* The call `req` run against the replies `sc`
Run(self, req, sc) ==
    LET io == [script |-> sc, calls |-> <<>>]
    IN  IF req.op = "process"
        THEN process(self, req.prompt, req.priority, req.use_llm_fallback, io)
        ELSE IF req.op = "distill"
        THEN distill_and_process(self, req.prompt, io)
        ELSE Result("returned", router_route(self.router, req.prompt, req.priority), io)

Init ==
    /\ config_yaml \in ConfigFiles
    /\ orchestrator = HybridOrchestrator_init(config_yaml)
    /\ request = [op |-> "none"]
    /\ script = <<>>
    /\ result = Idle
    /\ training_jobs = <<>>

\* Query with process leaving the router on the thresholds of the other
\* routing section for the calls that follow
Query_retuning ==
    /\ result.st # "blocked"
    /\ \E prompt \in Prompts, priority \in Priorities, use_llm_fallback \in BOOLEAN :
          request' = [op |-> "process", prompt |-> prompt, priority |-> priority,
                      use_llm_fallback |-> use_llm_fallback]
    /\ script' = <<>>
    /\ result' = Run(orchestrator, request', script')
    /\ orchestrator' =
           [orchestrator EXCEPT !.router = ModelRouter_init(
               [config_yaml EXCEPT !.routing =
                   RoutingOf("large_input_threshold" \notin DOMAIN config_yaml.routing,
                             config_yaml.routing.fallback_enabled)])]
    /\ UNCHANGED <<training_jobs, config_yaml>>

\* POST /query (src/api.py): orchestrator.process.  A call starts when the
\* previous one has ended.
Query ==
    /\ result.st # "blocked"
    /\ \E prompt \in Prompts, priority \in Priorities, use_llm_fallback \in BOOLEAN :
          request' = [op |-> "process", prompt |-> prompt, priority |-> priority,
                      use_llm_fallback |-> use_llm_fallback]
    /\ script' = <<>>
    /\ result' = Run(orchestrator, request', script')
    /\ UNCHANGED <<training_jobs, config_yaml, orchestrator>>

\* POST /distill (src/api.py): orchestrator.distill_and_process
Distill ==
    /\ result.st # "blocked"
    /\ \E prompt \in Prompts :
          request' = [op |-> "distill", prompt |-> prompt]
    /\ script' = <<>>
    /\ result' = Run(orchestrator, request', script')
    /\ UNCHANGED <<training_jobs, config_yaml, orchestrator>>

\* router.route called on its own
Route ==
    /\ result.st # "blocked"
    /\ \E text \in Texts, priority \in Priorities :
          request' = [op |-> "route", prompt |-> text, priority |-> priority]
    /\ script' = <<>>
    /\ result' = Run(orchestrator, request', script')
    /\ UNCHANGED <<training_jobs, config_yaml, orchestrator>>

\* The backend called last answers or fails, and the call runs on to its
\* next backend call or to its end.
BackendReply ==
    /\ result.st = "blocked"
    /\ \E reply \in Replies(result.val.tier) :
          /\ script' = Append(script, reply)
          /\ result' = Run(orchestrator, request, script')
    /\ UNCHANGED <<training_jobs, config_yaml, orchestrator, request>>

Next == Query \/ Distill \/ Route \/ BackendReply

Spec == Init /\ [][Next]_vars

(***************************************************************************)
(* What a state shows of the call being handled.                           *)
(***************************************************************************)

\* The backend calls made so far, each with its tier, prompt and result
Calls == result.io.calls

InProcess == request.op = "process"

ProcessReturned == InProcess /\ result.st = "returned"

ProcessRaised == InProcess /\ result.st = "raised"

\* The decision route gave the call being handled
Decision == router_route(orchestrator.router, request.prompt, request.priority)

FallbackOn == request.use_llm_fallback /\ orchestrator.fallback_enabled

\* The positions of the calls that failed
FailedCalls == {i \in 1..Len(Calls) : ~Calls[i].ok}

\* The name by which the error messages of process call a tier
TierLabel(tier) ==
    IF tier = "slm" THEN "SLM" ELSE IF tier = "llm" THEN "LLM" ELSE "Gemini"

(***************************************************************************)
(* Claims.                                                                 *)
(***************************************************************************)

\* C1: when the slm tier fails and the llm tier then fails too, process
\* raises one error whose text contains the error message of the slm backend
\* and the error message of the llm backend, whatever the kind of failure.
C1_BothMessagesInError ==
    \A i, j \in FailedCalls :
        (/\ ProcessRaised
         /\ i < j
         /\ Calls[i].tier = "slm"
         /\ Calls[j].tier = "llm")
        => /\ Contains(result.val, Calls[i].val)
           /\ Contains(result.val, Calls[j].val)

\* C2: within one process call no tier is invoked more than once.
C2_NoTierCalledTwice ==
    InProcess =>
        \A i, j \in 1..Len(Calls) : i < j => Calls[i].tier # Calls[j].tier

\* C3: when process returns a response that a tier other than
\* decision.model_type produced, the outcome has fallback_used = true and a
\* populated fallback_reason.
C3_NonPrimaryPathIsMarked ==
    (/\ ProcessReturned
     /\ Len(Calls) > 0
     /\ Calls[Len(Calls)].tier # result.val.decision.model_type)
    => /\ result.val.fallback_used
       /\ "fallback_reason" \in DOMAIN result.val
       /\ result.val.fallback_reason # ""

\* C4: when process fails after a fallback dispatch has failed, the error
\* raised names every tier attempted during the call together with the error
\* text that tier raised.
C4_ErrorNamesEveryAttempt ==
    (ProcessRaised /\ Cardinality(FailedCalls) >= 2)
    => \A i \in 1..Len(Calls) :
           /\ Contains(result.val, TierLabel(Calls[i].tier))
           /\ Contains(result.val, Calls[i].val)

\* C5: in every outcome process returns, fallback_reason is present if and
\* only if fallback_used is true.
C5_ReasonIffFallbackUsed ==
    ProcessReturned =>
        ("fallback_reason" \in DOMAIN result.val <=> result.val.fallback_used)

\* C5, witness: process has returned an outcome of a fallback, with its reason
C5_Witness ==
    /\ ProcessReturned
    /\ result.val.fallback_used
    /\ "fallback_reason" \in DOMAIN result.val
    /\ Len(Calls) = 2

\* The quality gate applies to the response of the slm tier and fails
GateFails ==
    FallbackOn /\ ~check_response_quality(Calls[1].val, request.prompt)

\* The tier of a re-dispatch
NextTier == IF orchestrator.gemini_fallback THEN "gemini" ELSE "llm"

\* C6: in a process call whose decision is slm and whose slm call returned a
\* response, a re-dispatch happens if and only if use_llm_fallback and
\* fallback_enabled are true and the response fails the quality check; it
\* goes to gemini when configured and to llm otherwise, and when it succeeds
\* the outcome names that tier with fallback_used = true and the reason
\* "SLM response quality insufficient" (", using Gemini" for gemini).
\* Otherwise the slm response is returned with model_used = slm and
\* fallback_used = false.
C6_QualityGate ==
    (/\ InProcess
     /\ Decision.model_type = "slm"
     /\ Len(Calls) >= 1
     /\ Calls[1].tier = "slm"
     /\ Calls[1].ok)
    => /\ (Len(Calls) >= 2 \/ result.st = "blocked") <=> GateFails
       /\ Len(Calls) >= 2 => Calls[2].tier = NextTier
       /\ result.st = "blocked" => result.val.tier = NextTier
       /\ (Len(Calls) >= 2 /\ Calls[2].ok) =>
              /\ result.st = "returned"
              /\ result.val.response = Calls[2].val
              /\ result.val.model_used = NextTier
              /\ result.val.fallback_used
              /\ result.val.fallback_reason =
                     (IF NextTier = "gemini"
                      THEN "SLM response quality insufficient, using Gemini"
                      ELSE "SLM response quality insufficient")
       /\ ~GateFails =>
              /\ result.st = "returned"
              /\ result.val.response = Calls[1].val
              /\ result.val.model_used = "slm"
              /\ ~result.val.fallback_used

\* C6, witness: the slm response failed the gate and the re-dispatch to
\* gemini answered
C6_Witness ==
    /\ ProcessReturned
    /\ Decision.model_type = "slm"
    /\ Len(Calls) = 2
    /\ Calls[1].tier = "slm" /\ Calls[1].ok
    /\ Calls[2].tier = "gemini" /\ Calls[2].ok
    /\ result.val.fallback_reason = "SLM response quality insufficient, using Gemini"

\* The large_input_threshold of the configuration file, in tenths of a token
FileLargeInputThreshold ==
    Get(config_yaml.routing, "large_input_threshold", 2000 * TokenUnit)

\* C7: for every text and priority, if estimate_tokens(text) >=
\* large_input_threshold and a gemini tier is configured, route returns
\* gemini with confidence 0.95; no later rule overrides it.
C7_LargeInputGoesToGemini ==
    (/\ request.op = "route"
     /\ estimate_tokens(request.prompt) >= FileLargeInputThreshold
     /\ "gemini" \in DOMAIN config_yaml.models)
    => /\ result.val.model_type = "gemini"
       /\ result.val.confidence = 95

\* C7, witness: a large input routed to gemini under priority cost, where
\* the cost rule would otherwise have chosen slm
C7_Witness ==
    /\ request.op = "route"
    /\ request.priority = "cost"
    /\ estimate_tokens(request.prompt) >= FileLargeInputThreshold
    /\ "gemini" \in DOMAIN config_yaml.models
    /\ analyze_complexity(request.prompt) < 400
    /\ WordCount(request.prompt) < config_yaml.routing.max_slm_tokens
    /\ result.val.model_type = "gemini"

\* The decision a returned call carries
ReturnedDecision ==
    IF request.op = "route" THEN result.val ELSE result.val.decision

InDistill == request.op = "distill"

\* The position of the call that gave the stage-1 refinement: the slm call,
\* or the gemini call made for it after a connectivity failure
RefinementCall == IF Calls[1].ok THEN 1 ELSE 2

\* C9: whenever the stage-1 refinement is empty or shorter than 10
\* characters after trimming, the refined_prompt of the result and the
\* prompt sent to stage 2 equal the original prompt character for character.
C9_ShortRefinementKeepsPrompt ==
    (/\ InDistill
     /\ result.st = "returned"
     /\ result.val.distillation_used
     /\ Len(Strip(Calls[RefinementCall].val)) < 10)
    => /\ result.val.refined_prompt = request.prompt
       /\ Calls[RefinementCall + 1].prompt = request.prompt

\* The highest available tier
HighestTier == IF orchestrator.gemini_fallback THEN "gemini" ELSE "llm"

\* Stage 1 has failed: the slm call failed, and so did the gemini call made
\* for it inside _try_generate_with_fallback, if one was made
Stage1Failed ==
    /\ ~Calls[1].ok
    /\ (Len(Calls) >= 2 /\ Calls[2].prompt = distillation_prompt(request.prompt))
           => ~Calls[2].ok

\* C10: whenever the stage-1 call of distill_and_process fails, the original
\* prompt is answered directly by the highest available tier, and on success
\* the result has distillation_used = false, refined_prompt = the original
\* prompt and distillation_error = the stage-1 error.
C10_Stage1FailureAnsweredDirectly ==
    (/\ InDistill
     /\ result.st \in {"returned", "raised"}
     /\ Stage1Failed)
    => \E i \in 2..Len(Calls) :
           /\ Calls[i].tier = HighestTier
           /\ Calls[i].prompt = request.prompt
           /\ Calls[i].ok =>
                  /\ result.st = "returned"
                  /\ ~result.val.distillation_used
                  /\ result.val.refined_prompt = request.prompt
                  /\ result.val.distillation_error = Calls[1].val

\* The positions of the calls that asked the highest tier to answer the
\* original prompt directly and failed
FailedDirectAnswers ==
    {i \in FailedCalls :
        /\ i >= 2
        /\ Calls[i].tier = HighestTier
        /\ Calls[i].prompt = request.prompt}

\* C11: when stage 1 of distill_and_process fails and the direct answer by
\* the highest tier fails too, the call fails with one error whose text
\* contains the error message of the slm tier and the error message of the
\* highest tier.
C11_BothDistillErrorsInError ==
    (/\ InDistill
     /\ result.st = "raised"
     /\ Stage1Failed)
    => \A i \in FailedDirectAnswers :
           /\ Contains(result.val, Calls[1].val)
           /\ Contains(result.val, Calls[i].val)

(***************************************************************************)
(* The functions of the router and of the orchestrator applied on their    *)
(* own: one call per behaviour, on a configuration and on inputs drawn     *)
(* from the sets below.                                                    *)
(***************************************************************************)

\* Responses given to _check_response_quality
Responses ==
    {"", "ok", "123456789", "1234567890", "12345678901",
     "sorry, error, unable", "Sorry, I am UNABLE to help.",
     "I don't know, sorry.", "An error occurred here.",
     "I cannot do it; I am unable to.", "The answer is forty-two.",
     Repeat("relevant ", 200)}

\* Prompts given to _check_response_quality
QualityPrompts ==
    {"Explain quantum computing", "Hi",
     Repeat("x", 99), Repeat("x", 100), Repeat("x", 101), Repeat("x", 111)}

\* self._check_response_quality(response, prompt)
QualityCall ==
    /\ request.op = "none"
    /\ \E response \in Responses, prompt \in QualityPrompts :
          /\ request' = [op |-> "check_quality", response |-> response,
                         prompt |-> prompt]
          /\ result' = Result("returned",
                               check_response_quality(response, prompt), NoIo)
    /\ UNCHANGED <<training_jobs, config_yaml, orchestrator, script>>

\* Texts given to route and analyze_complexity on their own
RouteTexts ==
    Texts \cup
    {"What is the capital of France?",
     "Explain and design the algorithm??",
     "Explain and design the optimization algorithm for distributed message protocol??",
     "Explain, compare and design the optimization algorithm for a distributed message protocol??",
     "Why? Explain and design one algorithm for the distributed message passing protocol of the data centre, and then evaluate it??"}

\* The weights of a routing section: (cost, latency, quality), in 1/100
WeightSets ==
    {<<30, 30, 40>>, <<0, 0, 0>>, <<100, 0, 0>>, <<0, 100, 0>>, <<0, 0, 100>>}

\* The tiers of a configuration file, the slm tier cheap or dearer per token
\* than the others
RouterModels(with_gemini, pricey) ==
    IF pricey
    THEN [ModelsOf(with_gemini) EXCEPT !["slm"].cost_per_token = 400]
    ELSE ModelsOf(with_gemini)

\* The routing sections: the two of RoutingOf, and one with a
\* complexity_threshold of 0.9
RouterRouting(profile, w) ==
    LET base ==
            IF profile = "high"
            THEN [complexity_threshold       |-> 450,
                  max_slm_tokens             |-> 512,
                  large_input_threshold      |-> 2000 * TokenUnit,
                  gemini_preferred_threshold |-> 5 * TokenUnit,
                  fallback_enabled           |-> TRUE,
                  cost_weight                |-> 0,
                  latency_weight             |-> 0,
                  quality_weight             |-> 0]
            ELSE RoutingOf(profile = "small", TRUE)
    IN  [base EXCEPT !.cost_weight = w[1], !.latency_weight = w[2],
                     !.quality_weight = w[3]]

\* The configuration files the functions are applied under
RouterConfigFiles ==
    {[models |-> RouterModels(g, pricey), routing |-> RouterRouting(profile, w)] :
        g \in BOOLEAN, pricey \in BOOLEAN,
        profile \in {"small", "default", "high"}, w \in WeightSets}

FunctionInit ==
    /\ config_yaml \in RouterConfigFiles
    /\ orchestrator = HybridOrchestrator_init(config_yaml)
    /\ request = [op |-> "none"]
    /\ script = <<>>
    /\ result = Idle
    /\ training_jobs = <<>>

\* self.router.route(text, priority)
RouteCall ==
    /\ request.op = "none"
    /\ \E text \in RouteTexts, priority \in Priorities :
          /\ request' = [op |-> "route", prompt |-> text, priority |-> priority]
          /\ result' = Result("returned",
                               route(orchestrator.router, text, priority), NoIo)
    /\ UNCHANGED <<training_jobs, config_yaml, orchestrator, script>>

\* Texts given to analyze_complexity on its own: those of route, and texts
\* that differ from one another in one count only
ComplexityTexts ==
    RouteTexts \cup
    {"datadata.", "data.", "data?", "data???", "data data data data?",
     "explain it", "explore it", "Explain, then COMPARE.", "Explain, then compose.",
     "Explain, compare, design it!", "Explain, compare, detail it!",
     "the protocol", "the protocal", "A Protocol framework",
     "A Protocol frameworks", Repeat("data ", 31), Repeat("data ", 30) \o "data.",
     Repeat("Explain the protocol?? ", 12)}

\* self.router.analyze_complexity(text)
ComplexityCall ==
    /\ request.op = "none"
    /\ \E text \in ComplexityTexts :
          /\ request' = [op |-> "analyze_complexity", prompt |-> text]
          /\ result' = Result("returned", analyze_complexity(text), NoIo)
    /\ UNCHANGED <<training_jobs, config_yaml, orchestrator, script>>

FunctionNext == QualityCall \/ RouteCall \/ ComplexityCall

FunctionSpec == FunctionInit /\ [][FunctionNext]_vars

\* The indicator phrases that occur in the lower-cased response of the call
IndicatorHits ==
    {i \in {"error", "cannot", "unable", "sorry", "i don't know"} :
        Contains(Lower(request.response), i)}

\* C12: check_quality(response, prompt) returns false exactly when the
\* response is empty or shorter than 10 characters, or its length is below
\* 10% of the prompt length, or at least 2 of the five indicator phrases
\* occur in the lower-cased response; otherwise it returns true.  The
\* response "sorry, error, unable" to "Explain quantum computing" fails.
C12_CheckQualityConditions ==
    request.op = "check_quality" =>
        /\ result.val = FALSE <=>
               \/ Len(request.response) < 10
               \/ 10 * Len(request.response) < Len(request.prompt)
               \/ Cardinality(IndicatorHits) >= 2
        /\ (/\ request.response = "sorry, error, unable"
            /\ request.prompt = "Explain quantum computing") => result.val = FALSE

\* C12, witness: the response with three indicators has failed the check,
\* on its indicators alone
C12_Witness ==
    /\ request.op = "check_quality"
    /\ request.response = "sorry, error, unable"
    /\ request.prompt = "Explain quantum computing"
    /\ Cardinality(IndicatorHits) = 3
    /\ result.val = FALSE

(***************************************************************************)
(* What a state shows of a route call, from the configuration file.        *)
(***************************************************************************)

InRoute == request.op = "route" /\ result.st = "returned"

Tokens == estimate_tokens(request.prompt)

Complexity == analyze_complexity(request.prompt)

Words == WordCount(request.prompt)

GeminiConfigured == "gemini" \in DOMAIN config_yaml.models

FileGeminiPreferredThreshold ==
    Get(config_yaml.routing, "gemini_preferred_threshold", 1000 * TokenUnit)

\* Rule 1, the large-input rule, fires
LargeInputRule == Tokens >= FileLargeInputThreshold /\ GeminiConfigured

\* Rule 2, the cost rule, would fire if reached
CostRule ==
    /\ request.priority = "cost"
    /\ Complexity < 400
    /\ Words < config_yaml.routing.max_slm_tokens

\* Rule 3, the speed rule: its gemini branch and its slm branch
SpeedRuleGemini ==
    /\ request.priority = "speed"
    /\ Tokens >= FileGeminiPreferredThreshold
    /\ GeminiConfigured

SpeedRuleSlm == request.priority = "speed" /\ Complexity < 350

\* Rule 4, the complexity rule, would fire if reached
ComplexityRule ==
    \/ Complexity > config_yaml.routing.complexity_threshold
    \/ Words > config_yaml.routing.max_slm_tokens

\* None of rules 1 to 4 fires: the weighted score decides
WeightedRuleDecides ==
    /\ ~LargeInputRule
    /\ ~CostRule
    /\ ~SpeedRuleGemini
    /\ ~SpeedRuleSlm
    /\ ~ComplexityRule

\* The quality score of a tier, in units of 1e-6
TierQuality(tier) ==
    IF tier = "gemini" THEN Min(2600 * Complexity, 1000000)
    ELSE IF tier = "llm" THEN Min(2400 * Complexity, 1000000)
    ELSE Max(500000, 1000000 - 1000 * Complexity)

\* The weighted score of a tier for the text of the call
TierScore(tier) ==
    WeightedScore(orchestrator.router,
                  estimate_cost(orchestrator.router, request.prompt, tier),
                  estimate_latency(request.prompt, tier),
                  TierQuality(tier))

\* The tiers the weighted score compares
ScoredTiers ==
    {"slm", "llm"} \cup
    (IF GeminiConfigured /\ Tokens >= FileGeminiPreferredThreshold
     THEN {"gemini"} ELSE {})

\* The place of a tier in the order that breaks ties: gemini, slm, llm
TieRank(tier) == IF tier = "gemini" THEN 1 ELSE IF tier = "slm" THEN 2 ELSE 3

\* The tier with the highest score, ties broken in the order gemini, slm, llm
BestTier ==
    CHOOSE t \in ScoredTiers :
        \A u \in ScoredTiers \ {t} :
            \/ TierScore(t) > TierScore(u)
            \/ TierScore(t) = TierScore(u) /\ TieRank(t) < TieRank(u)

\* C13: when none of rules 1 to 4 fires, route selects the tier with the
\* highest weighted score among the available tiers (gemini only when
\* configured and tokens >= gemini_preferred_threshold), equal scores
\* broken in the order gemini, slm, llm, with confidence 0.85 for gemini or
\* llm and 0.7 for slm.
C13_HighestWeightedScoreWins ==
    (InRoute /\ WeightedRuleDecides)
    => /\ result.val.model_type = BestTier
       /\ result.val.confidence = (IF BestTier = "slm" THEN 70 ELSE 85)

\* C14: every RoutingDecision route returns carries a reason that embeds the
\* numeric quantity that triggered the rule: the complexity value or the
\* estimated token count.
C14_ReasonEmbedsQuantity ==
    InRoute =>
        \/ Contains(result.val.reason, FormatFixed(Complexity, ComplexityUnit, 2))
        \/ Contains(result.val.reason,
                    FormatFixed(Tokens, TokenUnit, 0) \o " tokens")

\* The five counts analyze_complexity takes of a text: words, characters,
\* question marks, complex-verb matches, technical-noun matches
CountsOf(text) ==
    <<WordCount(text), Len(text), CountChar(text, "?"),
      CountWholeWords(text, complex_patterns),
      CountWholeWords(text, technical_terms)>>

\* The counts and the complexity of the texts, tabulated
CountsTable == [text \in ComplexityTexts |-> CountsOf(text)]

ComplexityTable == [text \in ComplexityTexts |-> analyze_complexity(text)]

\* The sum of the five capped terms for given counts, capped at 1.0, in 1/500
CappedSum(n) ==
    Min(Min(5 * n[1], 150) + Min(n[2], 100) + Min(50 * n[3], 100)
            + Min(75 * n[4], 100) + Min(50 * n[5], 50),
        500)

\* The counts m are the counts n with one of them grown
OneCountGrown(n, m) ==
    \E k \in 1..5 : m[k] > n[k] /\ \A j \in (1..5) \ {k} : m[j] = n[j]

\* C15: analyze_complexity returns a value in [0,1], 0 for the empty text,
\* equal to the sum of the five capped terms capped at 1.0, and the value
\* never decreases when one of the word count, the character count or a
\* keyword match count grows while the other counts stay fixed.
C15_ComplexityBoundedMonotone ==
    request.op = "analyze_complexity" =>
        /\ result.val \in 0..500
        /\ request.prompt = "" => result.val = 0
        /\ result.val = CappedSum(CountsTable[request.prompt])
        /\ \A other \in ComplexityTexts :
               OneCountGrown(CountsTable[request.prompt], CountsTable[other])
                   => ComplexityTable[other] >= result.val

\* C15, witness of the cap: a text whose terms are all capped has
\* complexity 1.0
C15_CapWitness ==
    /\ request.op = "analyze_complexity"
    /\ result.val = 500
    /\ CountsTable[request.prompt][1] > 30
    /\ CountsTable[request.prompt][3] > 2

\* C15, witness of the monotonicity: another text has one count more and
\* the same other counts, and a strictly higher complexity
C15_GrowthWitness ==
    /\ request.op = "analyze_complexity"
    /\ \E other \in ComplexityTexts :
          /\ OneCountGrown(CountsTable[request.prompt], CountsTable[other])
          /\ ComplexityTable[other] > result.val

\* The call is route(ExampleDesign, priority = balanced)
DesignExampleRouted ==
    /\ InRoute
    /\ request.prompt = ExampleDesign
    /\ request.priority = "balanced"

\* The configuration file leaves large_input_threshold and
\* gemini_preferred_threshold to the defaults of ModelRouter.__init__
DefaultThresholds ==
    /\ "large_input_threshold" \notin DOMAIN config_yaml.routing
    /\ "gemini_preferred_threshold" \notin DOMAIN config_yaml.routing

HiExampleRouted ==
    /\ InRoute
    /\ request.prompt = "Hi"
    /\ request.priority = "balanced"
    /\ DefaultThresholds

\* The weights of the configuration file are 0.3, 0.3 and 0.4, and the slm
\* tier is the cheaper one per token
BalancedWeightsCheapSlm ==
    /\ config_yaml.routing.cost_weight = 30
    /\ config_yaml.routing.latency_weight = 30
    /\ config_yaml.routing.quality_weight = 40
    /\ config_yaml.models["slm"].cost_per_token
           < config_yaml.models["llm"].cost_per_token

MaxCalls == 2

ConcurrentCalls == 1..MaxCalls

\* The calls made concurrently
ConcurrentRequests ==
    {[op |-> "process", prompt |-> "Hi", priority |-> "balanced",
      use_llm_fallback |-> f] : f \in BOOLEAN}
    \cup {[op |-> "distill", prompt |-> "Hi"],
          [op |-> "route", prompt |-> "Hi", priority |-> "cost"]}

\* What a backend may deliver to one of them
ConcurrentReplies(tier) ==
    {[ok |-> TRUE, text |-> "The " \o tier \o " answer."],
     [ok |-> FALSE, text |-> tier \o " host: Connection refused"]}
    \cup (IF tier = "slm" THEN {[ok |-> TRUE, text |-> ""]} ELSE {})

ConcurrentInit ==
    /\ config_yaml \in
           {file \in ConfigFiles : "large_input_threshold" \notin DOMAIN file.routing}
    /\ orchestrator = HybridOrchestrator_init(config_yaml)
    /\ request = [i \in ConcurrentCalls |-> [op |-> "none"]]
    /\ script = [i \in ConcurrentCalls |-> <<>>]
    /\ result = [i \in ConcurrentCalls |-> Idle]
    /\ training_jobs = <<>>

\* CallStarts with the call's use_llm_fallback kept on the orchestrator
CallStarts_sharing(i) ==
    /\ request[i].op = "none"
    /\ \E req \in ConcurrentRequests :
          /\ request' = [request EXCEPT ![i] = req]
          /\ result' = [result EXCEPT ![i] = Run(orchestrator, req, <<>>)]
          /\ orchestrator' =
                 IF req.op = "process"
                 THEN [orchestrator EXCEPT !.fallback_enabled = req.use_llm_fallback]
                 ELSE orchestrator
    /\ UNCHANGED <<training_jobs, config_yaml, script>>

\* A handler of src/api.py starts call i on the orchestrator
CallStarts(i) ==
    /\ request[i].op = "none"
    /\ \E req \in ConcurrentRequests :
          /\ request' = [request EXCEPT ![i] = req]
          /\ result' = [result EXCEPT ![i] = Run(orchestrator, req, <<>>)]
    /\ UNCHANGED <<training_jobs, config_yaml, orchestrator, script>>

\* The backend call i waits for answers or fails, and call i runs on
CallReply(i) ==
    /\ result[i].st = "blocked"
    /\ \E reply \in ConcurrentReplies(result[i].val.tier) :
          /\ script' = [script EXCEPT ![i] = Append(@, reply)]
          /\ result' = [result EXCEPT ![i] =
                            Run(orchestrator, request[i], script'[i])]
    /\ UNCHANGED <<training_jobs, config_yaml, orchestrator, request>>

ConcurrentNext == \E i \in ConcurrentCalls : CallStarts(i) \/ CallReply(i)

ConcurrentSpec == ConcurrentInit /\ [][ConcurrentNext]_vars

C19_CostRuleReturnsSlm ==
    (InRoute /\ ~LargeInputRule /\ CostRule)
    => /\ result.val.model_type = "slm"
       /\ result.val.confidence = 80

\* C19, witness: the cost rule has decided for a text whose complexity
\* exceeds complexity_threshold
C19_Witness ==
    /\ InRoute
    /\ ~LargeInputRule
    /\ CostRule
    /\ Complexity > config_yaml.routing.complexity_threshold
    /\ result.val.model_type = "slm"

\* The speed rule is reached and neither of its branches fires
SpeedRuleFallsThrough ==
    /\ request.priority = "speed"
    /\ ~LargeInputRule
    /\ ~SpeedRuleGemini
    /\ ~SpeedRuleSlm

\* C20: when rule 1 does not fire and the priority is speed, route returns
\* gemini with confidence 0.9 if the tokens reach gemini_preferred_threshold
\* and gemini is configured; otherwise slm with confidence 0.75 if the
\* complexity is below 0.7, whatever the word count; otherwise the decision
\* is the one of the complexity rule and the weighted score, that is, the
\* decision made for the same text under the balanced priority.
C20_SpeedRule ==
    (InRoute /\ ~LargeInputRule /\ request.priority = "speed")
    => IF SpeedRuleGemini
       THEN /\ result.val.model_type = "gemini"
            /\ result.val.confidence = 90
       ELSE IF SpeedRuleSlm
       THEN /\ result.val.model_type = "slm"
            /\ result.val.confidence = 75
       ELSE /\ result.val = route(orchestrator.router, request.prompt, "balanced")
            /\ result.val.model_type # "slm"
            /\ result.val.confidence = (IF ComplexityRule THEN 90 ELSE 85)

\* C20, witness: the slm branch of the speed rule has decided for a text
\* of more than max_slm_tokens words
C20_Witness ==
    /\ InRoute
    /\ ~LargeInputRule
    /\ ~SpeedRuleGemini
    /\ SpeedRuleSlm
    /\ Words > config_yaml.routing.max_slm_tokens
    /\ result.val.model_type = "slm"

\* C20, the fall-through happens: the complexity rule and the weighted
\* score each decide a request of speed priority
C20_FallsToComplexityRule == InRoute /\ SpeedRuleFallsThrough /\ ComplexityRule

C20_FallsToWeightedScore == InRoute /\ SpeedRuleFallsThrough /\ ~ComplexityRule

\* Rules 1 to 3 did not return and the complexity rule fires
ComplexityRuleDecides ==
    /\ ~LargeInputRule
    /\ ~CostRule
    /\ ~SpeedRuleGemini
    /\ ~SpeedRuleSlm
    /\ ComplexityRule

\* C21: when rules 1 to 3 did not return and the complexity exceeds
\* complexity_threshold or the word count exceeds max_slm_tokens, route
\* never returns slm: it returns gemini with confidence 0.9 if the tokens
\* reach gemini_preferred_threshold and gemini is configured, and llm with
\* confidence 0.9 otherwise.
C21_ComplexityRule ==
    (InRoute /\ ComplexityRuleDecides)
    => /\ result.val.model_type =
              (IF Tokens >= FileGeminiPreferredThreshold /\ GeminiConfigured
               THEN "gemini" ELSE "llm")
       /\ result.val.confidence = 90

\* C21, witness: the complexity rule has preferred gemini
C21_Witness ==
    /\ InRoute
    /\ ComplexityRuleDecides
    /\ Tokens >= FileGeminiPreferredThreshold
    /\ GeminiConfigured
    /\ result.val.model_type = "gemini"

\* C21, the other branch happens: the complexity rule has chosen llm
C21_LlmBranch ==
    /\ InRoute
    /\ ComplexityRuleDecides
    /\ result.val.model_type = "llm"

\* The tier of the decision is not slm and has no fallback configured:
\* gemini, or llm without a gemini tier
TerminalTier ==
    \/ Decision.model_type = "gemini"
    \/ Decision.model_type = "llm" /\ ~orchestrator.gemini_fallback

\* C22: a failure of a non-local tier that has no further fallback is
\* terminal: when the decision is gemini and gemini fails, or the decision
\* is llm, gemini is not configured and llm fails, process raises an error
\* and invokes no other tier.
C22_TerminalFailure ==
    (/\ InProcess
     /\ TerminalTier
     /\ Len(Calls) >= 1
     /\ ~Calls[1].ok)
    => /\ result.st = "raised"
       /\ Len(Calls) = 1
       /\ Calls[1].tier = Decision.model_type

\* C22, witness: a gemini decision has failed at gemini and the call has
\* ended in an error
C22_Witness ==
    /\ ProcessRaised
    /\ Decision.model_type = "gemini"
    /\ Len(Calls) = 1
    /\ ~Calls[1].ok

\* C22, the other case happens: an llm decision without a gemini tier has
\* failed at llm
C22_LlmWitness ==
    /\ ProcessRaised
    /\ Decision.model_type = "llm"
    /\ ~orchestrator.gemini_fallback
    /\ Len(Calls) = 1
    /\ ~Calls[1].ok

\* The tier whose generate call produced the response process returned:
\* the last call made
ProducingTier == Calls[Len(Calls)].tier

\* C23: in every outcome process returns, model_used names the tier whose
\* generate call produced the returned response, and it differs from
\* decision.model_type only when fallback_used is true.
C23_ModelUsedNamesProducer ==
    (ProcessReturned /\ Len(Calls) > 0)
    => /\ result.val.response = Calls[Len(Calls)].val
       /\ result.val.model_used = ProducingTier
       /\ result.val.model_used # result.val.decision.model_type
              => result.val.fallback_used

\* C24: with use_llm_fallback = false, or fallback_enabled = false in the
\* configuration, process invokes no tier other than decision.model_type
\* and never returns an outcome with fallback_used = true.
C24_FallbackOffSingleTier ==
    (InProcess /\ ~FallbackOn)
    => /\ \A i \in 1..Len(Calls) : Calls[i].tier = Decision.model_type
       /\ result.st = "blocked" => result.val.tier = Decision.model_type
       /\ result.st = "returned" => ~result.val.fallback_used

\* C24, its second half alone: with the fallback off no outcome has
\* fallback_used = true
C24_FallbackOffNeverUsed ==
    (ProcessReturned /\ ~FallbackOn) => ~result.val.fallback_used

\* The error process raises for a gemini decision without a gemini tier
GeminiNotConfigured == "Gemini routing requested but Gemini not configured"

\* C25: route never returns model_type gemini when no gemini tier is
\* configured, for every text and priority; consequently process never
\* raises "Gemini routing requested but Gemini not configured".
C25_NoGeminiUnlessConfigured ==
    /\ (request.op \in {"route", "process"} /\ ~GeminiConfigured)
           => Decision.model_type # "gemini"
    /\ (request.op = "route" /\ ~GeminiConfigured)
           => result.val.model_type # "gemini"
    /\ ProcessRaised => ~Contains(result.val, GeminiNotConfigured)

\* C25, witness: without a gemini tier, process has answered a text whose
\* tokens reach large_input_threshold
C25_Witness ==
    /\ ProcessReturned
    /\ ~GeminiConfigured
    /\ Tokens >= FileLargeInputThreshold
    /\ result.val.decision.model_type # "gemini"

\* C26: the decision field of every outcome process returns equals
\* route(prompt, priority) as computed at the start of the call: no
\* fallback, quality-gate or error path modifies or replaces it, and its
\* model_type keeps naming the primary tier, the first one invoked, even
\* when model_used differs.
C26_DecisionUnchanged ==
    ProcessReturned
    => /\ result.val.decision = Decision
       /\ Len(Calls) >= 1 => Calls[1].tier = result.val.decision.model_type

\* C26, witness: an outcome whose model_used differs from the model_type
\* of its decision, reached through the except clause
C26_Witness ==
    /\ ProcessReturned
    /\ result.val.model_used # result.val.decision.model_type
    /\ Len(Calls) >= 2
    /\ ~Calls[1].ok
    /\ result.val.decision = Decision

\* C27: in every result distill_and_process returns, distillation_error is
\* present if and only if distillation_used is false, and distillation_used
\* = false is returned only when the stage-1 refinement call itself failed:
\* a failure of the stage-2 answer is never reported as a distillation
\* error.
C27_DistillationErrorIsStage1 ==
    (InDistill /\ result.st = "returned")
    => /\ ("distillation_error" \in DOMAIN result.val)
              <=> ~result.val.distillation_used
       /\ ~result.val.distillation_used => Stage1Failed

\* C27, its first half alone: distillation_error is present if and only if
\* distillation_used is false
C27_ErrorIffNotUsed ==
    (InDistill /\ result.st = "returned")
    => (("distillation_error" \in DOMAIN result.val)
           <=> ~result.val.distillation_used)

(***************************************************************************)
(* The training jobs of the service (src/api.py): POST /train,             *)
(* POST /train/update/{job_id} and GET /train/status/{job_id} on the       *)
(* dictionary training_jobs.  An uploaded file is its filename and its     *)
(* size in bytes; the clock is not modelled, and every timestamp reads     *)
(* Now.                                                                    *)
(***************************************************************************)

\* The number of job ids uuid.uuid4() may deliver
MaxJobs == 2

JobIds == {"job-" \o ToString(n) : n \in 1..MaxJobs}

\* train: the largest dataset accepted, in bytes
MaxDatasetBytes == 50 * 1024 * 1024

\* datetime.now().isoformat()
Now == "now"

\* s.endswith(suffix)
EndsWith(s, suffix) ==
    /\ Len(s) >= Len(suffix)
    /\ SubSeq(s, Len(s) - Len(suffix) + 1, Len(s)) = suffix

\* len(base64.b64encode(contents)) for contents of n bytes
Base64Len(n) == 4 * ((n + 2) \div 3)

\* No file in the form: dataset is None
NoFile == [present |-> FALSE]

UploadFile(filename, size) ==
    [present |-> TRUE, filename |-> filename, size |-> size]

\* raise HTTPException(status_code, detail)
HTTPException(status_code, detail) ==
    [st |-> "exc", status_code |-> status_code, detail |-> detail]

\* str(e) of an HTTPException: empty where the exception class of the
\* installed framework keeps no arguments, "status: detail" where it
\* defines __str__
StrHTTPException(e) ==
    {"", ToString(e.status_code) \o ": " \o e.detail}

\* train: the link to the notebook
ColabUrl(job_id, req) ==
    "https://colab.research.google.com/github/slashexx/lora-fine-pipe/blob/main/lora_training.ipynb?"
        \o "job_id=" \o job_id \o "&model=" \o req.model
        \o (IF req.use_starcoder
            THEN "&use_starcoder=true&starcoder_language=" \o req.starcoder_language
                     \o "&starcoder_max_samples="
                     \o ToString(req.starcoder_max_samples)
            ELSE "")

\* train: the record of a StarCoder job
StarcoderJob(job_id, req) ==
    [job_id                |-> job_id,
     model                 |-> req.model,
     dataset_type          |-> "starcoder",
     starcoder_language    |-> req.starcoder_language,
     starcoder_max_samples |-> req.starcoder_max_samples,
     dataset_filename      |-> "starcoder_" \o req.starcoder_language \o "_"
                                   \o ToString(req.starcoder_max_samples)
                                   \o ".parquet",
     status                |-> "pending",
     progress              |-> 0,
     created_at            |-> Now,
     colab_url             |-> ColabUrl(job_id, req)]

\* train: the record of a CSV job; the content is kept by its length, and
\* dataset_path is "" where /tmp could not be written
CsvJob(job_id, req, tmp_writable) ==
    [job_id              |-> job_id,
     model               |-> req.model,
     dataset_type        |-> "csv",
     dataset_filename    |-> req.dataset.filename,
     dataset_content_b64 |-> Base64Len(req.dataset.size),
     dataset_path        |-> IF tmp_writable
                             THEN "/tmp/" \o job_id \o "_" \o req.dataset.filename
                             ELSE "",
     status              |-> "pending",
     progress            |-> 0,
     created_at          |-> Now,
     colab_url           |-> ColabUrl(job_id, req)]

\* train: the answer to a job created
TrainCreated(job_id, req) ==
    [st           |-> "ok",
     status_code  |-> 200,
     job_id       |-> job_id,
     colab_url    |-> ColabUrl(job_id, req),
     dataset_type |-> IF req.use_starcoder THEN "starcoder" ELSE "csv"]

\* train, the body of the try statement: the jobs it leaves and what it
\* returns or raises
train_try(jobs, job_id, req, tmp_writable) ==
    IF req.use_starcoder
    THEN IF req.starcoder_language = ""
         THEN [jobs |-> jobs,
               out  |-> HTTPException(400,
                   "StarCoder language is required when use_starcoder is true")]
         ELSE [jobs |-> jobs @@ (job_id :> StarcoderJob(job_id, req)),
               out  |-> TrainCreated(job_id, req)]
    ELSE IF ~req.dataset.present
    THEN [jobs |-> jobs,
          out  |-> HTTPException(400,
              "Either upload a CSV file or use StarCoder dataset")]
    ELSE IF ~EndsWith(req.dataset.filename, ".csv")
    THEN [jobs |-> jobs,
          out  |-> HTTPException(400, "Only CSV files are supported")]
    ELSE IF req.dataset.size > MaxDatasetBytes
    THEN [jobs |-> jobs,
          out  |-> HTTPException(400,
              "Dataset file too large. Maximum size is 50MB. Please use StarCoder dataset for larger datasets.")]
    ELSE [jobs |-> jobs @@ (job_id :> CsvJob(job_id, req, tmp_writable)),
          out  |-> TrainCreated(job_id, req)]

\* train, the except clause: every exception of the body, those of its own
\* checks included, is raised again as status 500 with str(e) as detail
train_except(body, error_detail) ==
    IF body.out.st = "exc"
    THEN Result("raised", [status_code |-> 500, detail |-> error_detail], NoIo)
    ELSE Result("returned", body.out, NoIo)

\* The forms posted to /train
TrainRequests ==
    {[op |-> "train", model |-> "llama3", dataset |-> dataset,
      use_starcoder |-> use_starcoder, starcoder_language |-> language,
      starcoder_max_samples |-> 10000] :
        dataset \in {NoFile} \cup
            {UploadFile(filename, size) :
                filename \in {"data.csv", "notes.txt", "data.CSV"},
                size \in {MaxDatasetBytes, MaxDatasetBytes + 1}},
        use_starcoder \in BOOLEAN,
        language \in {"", "python"}}

\* The forms posted to /train/update/{job_id}: status, progress, error
TrainUpdates ==
    {<<"completed", 100, "">>, <<"failed", 50, "CUDA out of memory">>}

TrainInit ==
    /\ config_yaml \in {file \in ConfigFiles :
                           "large_input_threshold" \notin DOMAIN file.routing}
    /\ orchestrator = HybridOrchestrator_init(config_yaml)
    /\ request = [op |-> "none"]
    /\ script = <<>>
    /\ result = Idle
    /\ training_jobs = <<>>

\* POST /train
Train ==
    \E job_id \in JobIds \ DOMAIN training_jobs, req \in TrainRequests,
       tmp_writable \in BOOLEAN :
        LET body == train_try(training_jobs, job_id, req, tmp_writable)
        IN  /\ request' = req
            /\ training_jobs' = body.jobs
            /\ \E error_detail \in
                   (IF body.out.st = "exc" THEN StrHTTPException(body.out)
                    ELSE {""}) :
                   result' = train_except(body, error_detail)
            /\ UNCHANGED <<config_yaml, orchestrator, script>>

\* POST /train/update/{job_id}
TrainUpdate ==
    \E job_id \in JobIds, form \in TrainUpdates :
        /\ request' = [op |-> "train_update", job_id |-> job_id,
                       status |-> form[1], progress |-> form[2],
                       error |-> form[3]]
        /\ IF job_id \notin DOMAIN training_jobs
           THEN /\ result' = Result("raised",
                        [status_code |-> 404, detail |-> "Training job not found"],
                        NoIo)
                /\ UNCHANGED training_jobs
           ELSE /\ result' = Result("returned",
                        [status_code |-> 200,
                         message |-> "Status updated successfully"], NoIo)
                /\ training_jobs' =
                       [training_jobs EXCEPT ![job_id] =
                           [status |-> form[1], progress |-> form[2],
                            updated_at |-> Now]
                           @@ (IF form[3] # "" THEN [error |-> form[3]]
                               ELSE <<>>)
                           @@ (IF form[1] = "completed"
                               THEN [completed_at |-> Now] ELSE <<>>)
                           @@ @]
        /\ UNCHANGED <<config_yaml, orchestrator, script>>

\* GET /train/status/{job_id}
TrainStatus ==
    \E job_id \in JobIds :
        /\ request' = [op |-> "train_status", job_id |-> job_id]
        /\ result' =
               IF job_id \notin DOMAIN training_jobs
               THEN Result("raised",
                        [status_code |-> 404, detail |-> "Training job not found"],
                        NoIo)
               ELSE Result("returned", training_jobs[job_id], NoIo)
        /\ UNCHANGED <<training_jobs, config_yaml, orchestrator, script>>

TrainNext == Train \/ TrainUpdate \/ TrainStatus

TrainSpec == TrainInit /\ [][TrainNext]_vars

\* The form is one the checks of train reject
RejectedByValidation(req) ==
    \/ req.use_starcoder /\ req.starcoder_language = ""
    \/ ~req.use_starcoder /\ ~req.dataset.present
    \/ ~req.use_starcoder /\ req.dataset.present
           /\ ~EndsWith(req.dataset.filename, ".csv")
    \/ ~req.use_starcoder /\ req.dataset.present
           /\ req.dataset.size > MaxDatasetBytes

\* C28: a POST /train request rejected by input validation (use_starcoder
\* without a language, neither dataset nor StarCoder, a filename not ending
\* in .csv, or a file over 50MB) is answered with HTTP status 400 and adds
\* no record to training_jobs.
C28_RejectedTrainIs400 ==
    [][(request'.op = "train" /\ RejectedByValidation(request'))
           => /\ result'.st = "raised"
              /\ result'.val.status_code = 400
              /\ training_jobs' = training_jobs]_vars

\* C28, its second half alone: a rejected request adds no record
C28_RejectedAddsNoRecord ==
    [][(request'.op = "train" /\ RejectedByValidation(request'))
           => training_jobs' = training_jobs]_vars

\* C28, what the code answers: status 500
C28_RejectedTrainIs500 ==
    (request.op = "train" /\ RejectedByValidation(request))
    => /\ result.st = "raised"
       /\ result.val.status_code = 500
====
